---- MODULE Spec2Model ----
(***************************************************************************)
(* The S3 bucket auto-emptying CloudFormation hook                         *)
(* (src/src/lambda-hooks/empty-s3-bucket/index.py): lambda_handler, its    *)
(* validation of the inbound event, and empty_bucket's two batch-delete    *)
(* phases against a versioned object store.                                *)
(***************************************************************************)
EXTENDS Integers, Sequences, FiniteSets, TLC

\* ------------------------------------------------------------------ bounds
MaxKeys == 2
PageSize == 1
MaxRuns == 2
MaxConc == 2
MaxTransient == 11

Keys == 1..MaxKeys
Slots == 1..MaxConc
Buckets == {"b1", "b2"}
BucketNames == Buckets \cup {"nx"}

\* ------------------------------------------------- python values of events
Absent == [t |-> "absent"]
Null == [t |-> "null"]
Str(s) == [t |-> "str", s |-> s]
Map(m) == [t |-> "map", m |-> m]
EmptyDict == [k \in {} |-> Null]
Dict1(k, v) == [x \in {k} |-> v]

\* bool(v) of the values above: None, "" and {} are falsy.
Truthy(v) ==
    CASE v.t = "str" -> v.s # ""
      [] v.t = "map" -> DOMAIN v.m # {}
      [] OTHER -> FALSE

\* event.get(k): None when the key is absent.
DictGet(d, k) == IF k \in DOMAIN d THEN d[k] ELSE Null

\* v[k]: KeyError on a mapping without k, TypeError on None or a string.
GetItem(v, k) ==
    IF v.t = "map"
    THEN IF k \in DOMAIN v.m
         THEN [exc |-> "none", v |-> v.m[k]]
         ELSE [exc |-> "KeyError", key |-> k]
    ELSE [exc |-> "TypeError"]

BucketNamePath == <<"requestData", "targetModel", "resourceProperties", "BucketName">>

RECURSIVE Lookup(_, _)
Lookup(v, path) ==
    IF path = <<>>
    THEN [exc |-> "none", v |-> v]
    ELSE LET r == GetItem(v, Head(path))
         IN IF r.exc = "none" THEN Lookup(r.v, Tail(path)) ELSE r

\* ------------------------------------------------------------ the handler
DELETE_PRE_PROVISION == "DELETE_PRE_PROVISION"

NoVerdict == [hookStatus |-> "NONE"]

MutProvenanceOk(e) ==
    /\ Truthy(DictGet(e, "hookTypeName"))
    /\ Truthy(DictGet(e, "clientRequestToken"))
\* line 60: all three fields present and truthy.
ProvenanceOk(e) ==
    /\ Truthy(DictGet(e, "hookTypeName"))
    /\ Truthy(DictGet(e, "actionInvocationPoint"))
    /\ Truthy(DictGet(e, "clientRequestToken"))

MutPhaseOk(e) == TRUE
\* line 66
PhaseOk(e) == DictGet(e, "actionInvocationPoint") = Str(DELETE_PRE_PROVISION)

\* line 63: no clientRequestToken key in the response.
HooksOnlyVerdict ==
    [hookStatus |-> "FAILURE", errorCode |-> "Unauthorized",
     message |-> [text |-> "hooks_only"]]

MutWrongPhaseVerdict(e) == HooksOnlyVerdict
\* lines 67-69: the message interpolates event.get('actionInvocationPoint').
WrongPhaseVerdict(e) ==
    [hookStatus |-> "FAILURE", errorCode |-> "Unauthorized",
     message |-> [text |-> "only_delete_pre_provision",
                  received |-> DictGet(e, "actionInvocationPoint")],
     clientRequestToken |-> e["clientRequestToken"]]

MutKeyErrorVerdict(e, key) ==
    [hookStatus |-> "FAILURE", errorCode |-> "Unauthorized",
     message |-> [text |-> "KeyError", key |-> key],
     clientRequestToken |-> e["clientRequestToken"]]
\* line 75: the message is str(KeyError), the quoted missing key.
KeyErrorVerdict(e, key) ==
    [hookStatus |-> "FAILURE", errorCode |-> "NonCompliant",
     message |-> [text |-> "KeyError", key |-> key],
     clientRequestToken |-> e["clientRequestToken"]]

\* line 80
SuccessVerdict(e) ==
    [hookStatus |-> "SUCCESS", message |-> "compliant",
     clientRequestToken |-> e["clientRequestToken"]]

\* lines 60-75: what lambda_handler does before it reaches empty_bucket.
Validate(e) ==
    IF ~ProvenanceOk(e)
    THEN [kind |-> "return", verdict |-> HooksOnlyVerdict]
    ELSE IF ~PhaseOk(e)
    THEN [kind |-> "return", verdict |-> WrongPhaseVerdict(e)]
    ELSE LET r == Lookup(Map(e), BucketNamePath)
         IN CASE r.exc = "none" -> [kind |-> "empty", bucket_name |-> r.v]
              [] r.exc = "KeyError" ->
                    [kind |-> "return", verdict |-> KeyErrorVerdict(e, r.key)]
              [] OTHER -> [kind |-> "raise", exc |-> r.exc]

\* --------------------------------------------------------- inbound events
TopStrings(good) == {Absent, Null, Str("")} \cup {Str(g) : g \in good}

BucketNameValues == {Str(b) : b \in BucketNames}
ResourcePropertiesValues ==
    {Null, Map(EmptyDict)} \cup {Map(Dict1("BucketName", v)) : v \in BucketNameValues}
TargetModelValues ==
    {Null, Str("x"), Map(EmptyDict)}
        \cup {Map(Dict1("resourceProperties", v)) : v \in ResourcePropertiesValues}
RequestDataValues ==
    {Absent, Null, Map(EmptyDict)}
        \cup {Map(Dict1("targetModel", v)) : v \in TargetModelValues}

EventFields == {"hookTypeName", "actionInvocationPoint", "clientRequestToken", "requestData"}

MkEvent(h, a, t, r) ==
    LET val == [hookTypeName |-> h, actionInvocationPoint |-> a,
                clientRequestToken |-> t, requestData |-> r]
    IN [k \in {f \in EventFields : val[f] # Absent} |-> val[k]]

Events ==
    {MkEvent(h, a, t, r) :
        h \in TopStrings({"hook"}),
        a \in TopStrings({"CREATE_PRE_PROVISION", DELETE_PRE_PROVISION}),
        t \in TopStrings({"tok"}),
        r \in RequestDataValues}

WellFormedEvent(b, tok) ==
    MkEvent(Str("hook"), Str(DELETE_PRE_PROVISION), Str(tok),
            Map(Dict1("targetModel", Map(Dict1("resourceProperties",
                Map(Dict1("BucketName", Str(b))))))))

\* ------------------------------------------------------- storage clients
\* line 30-31: the configuration given to s3_client.
CLIENT_CONFIG == [max_attempts |-> 10, mode |-> "standard"]
\* line 32: boto3.resource('s3') is built without a config and keeps the
\* library's default retry handler (legacy mode, 4 retries).
DEFAULT_CONFIG == [max_attempts |-> 4, mode |-> "legacy"]
S3ClientConfig == CLIENT_CONFIG
S3ResourceConfig == DEFAULT_CONFIG
\* lines 45-51: every request of empty_bucket goes through the resource s3.
EmptyBucketConfig == S3ResourceConfig

\* What the backend does with one request: n transient failures (throttling,
\* timeouts) in a row, then a rejection or an answer.
Outcomes == [denied : BOOLEAN, n : 0..MaxTransient]
OkOutcome == [denied |-> FALSE, n |-> 0]

Min(a, b) == IF a < b THEN a ELSE b

\* The exception the client raises for a request, "none" when it answers.
BackendError(b, o, cfg) ==
    IF b \notin Buckets THEN "NoSuchBucket"
    ELSE IF o.n > cfg.max_attempts THEN "Transient"
    ELSE IF o.denied THEN "ClientError"
    ELSE "none"

\* Requests sent for one call, the first attempt included.
AttemptsMade(o, cfg) == Min(o.n, cfg.max_attempts) + 1

\* ------------------------------------------------------- the object store
\* An entry of a bucket: a version or a delete marker of a key. seq orders the
\* entries of a key (the latest has the largest), null tells the entries whose
\* version id is "null", by is the invocation slot that created it (0: before).
Entry(k, seq, null, dm, by) ==
    [key |-> k, seq |-> seq, null |-> null, dm |-> dm, by |-> by]

Latest(S, k) ==
    CHOOSE e \in S : e.key = k /\ \A f \in S : f.key = k => f.seq <= e.seq

\* Keys that have a current object: the latest entry is no delete marker.
CurrentKeys(S) ==
    {k \in Keys : (\E e \in S : e.key = k) /\ ~Latest(S, k).dm}

NoMarker == [key |-> 0, seq |-> 0]

\* One page of ListObjects after a key marker, as bucket.objects pages it.
ObjectsPage(S, m) ==
    LET cand == {k \in CurrentKeys(S) : k > m.key}
        items == {k \in cand : Cardinality({j \in cand : j < k}) < PageSize}
    IN [items |-> {[key |-> k] : k \in items},
        truncated |-> Cardinality(cand) > PageSize,
        next |-> IF items = {} THEN m
                 ELSE [key |-> CHOOSE k \in items : \A j \in items : j <= k,
                       seq |-> 0]]

MutVersionEntries(S) == {e \in S : ~e.dm}
\* bucket.object_versions: the Versions and the DeleteMarkers of the listing.
VersionEntries(S) == S

\* Listing order of ListObjectVersions: by key, newest first.
Before(e, f) == e.key < f.key \/ (e.key = f.key /\ e.seq > f.seq)

MutAfterMarker(e, m) == e.key > m.key
AfterMarker(e, m) ==
    m = NoMarker \/ e.key > m.key \/ (e.key = m.key /\ e.seq < m.seq)

\* One page of ListObjectVersions after a (key, version) marker.
VersionsPage(S, m) ==
    LET cand == {e \in VersionEntries(S) : AfterMarker(e, m)}
        items == {e \in cand : Cardinality({f \in cand : Before(f, e)}) < PageSize}
        last == CHOOSE e \in items : \A f \in items : f = e \/ Before(f, e)
    IN [items |-> {[key |-> e.key, seq |-> e.seq, null |-> e.null] : e \in items},
        truncated |-> Cardinality(cand) > PageSize,
        next |-> IF items = {} THEN m ELSE [key |-> last.key, seq |-> last.seq]]

\* Whether the status of a bucket makes a delete without a version id write a
\* delete marker.
WritesMarkers(st) == st \in {"Enabled", "Suspended"}

\* DeleteObjects with keys only (bucket.objects.delete()): removes the object of
\* a bucket that never had versioning, and otherwise writes a delete marker,
\* also for a key that has no object; when suspended the marker takes the
\* "null" version's place.
DeleteKeys(S, st, items, clk, who) ==
    LET ks == {it.key : it \in items}
        rank(k) == Cardinality({j \in ks : j < k})
    IN CASE st = "Off" -> {e \in S : e.key \notin ks}
         [] st = "Enabled" ->
               S \cup {Entry(k, clk + rank(k), FALSE, TRUE, who) : k \in ks}
         [] OTHER ->
               {e \in S : ~(e.key \in ks /\ e.null)}
                   \cup {Entry(k, clk + rank(k), TRUE, TRUE, who) : k \in ks}

\* DeleteObjects with key and version id (bucket.object_versions.delete()).
DeleteVersionItems(S, items) ==
    {e \in S : ~\E it \in items :
                  /\ it.key = e.key
                  /\ IF it.null THEN e.null ELSE ~e.null /\ e.seq = it.seq}

MutDeleteRaises(S, items) ==
    \E it \in items : ~\E e \in S : e.key = it.key
\* A key or version that is already gone is reported as deleted, not as an
\* error, and the batch call raises nothing.
DeleteRaises(S, items) == FALSE

MutOnEmptyBucketFault(e, exc) ==
    [kind |-> "return",
     verdict |-> [hookStatus |-> "FAILURE", errorCode |-> "InternalFailure",
                  message |-> [text |-> exc],
                  clientRequestToken |-> e["clientRequestToken"]]]
\* line 77: the call of empty_bucket is in no try block.
OnEmptyBucketFault(e, exc) == [kind |-> "raise", exc |-> exc]

\* ------------------------------------------------------------------ state
VARIABLES
    status,     \* bucket -> "Off" (never versioned), "Enabled", "Suspended"
    store,      \* bucket -> its entries
    store0,     \* bucket -> its entries before any invocation (history)
    clock,      \* the next version sequence number of the store
    pc,         \* slot -> where its invocation of lambda_handler stands
    event,      \* slot -> the event of its invocation
    verdict,    \* slot -> what lambda_handler returned
    fault,      \* slot -> the exception that left lambda_handler
    attempts,   \* slot -> the attempts of the request that raised
    page,       \* slot -> the items of the page being deleted
    marker,     \* slot -> the paginator's continuation marker
    more,       \* slot -> whether the last page was truncated
    reqs,       \* slot -> the requests it sent (history)
    changed,    \* slot -> whether one of its requests changed a bucket (history)
    startStore, \* slot -> the target bucket's entries when invoked (history)
    leftover,   \* slot -> the target bucket's entries when it returned SUCCESS
    prevEnd,    \* slot -> how the slot's previous invocation ended (history)
    runs        \* slot -> invocations the slot has finished

vars == <<status, store, store0, clock, pc, event, verdict, fault, attempts, page, marker,
          more, reqs, changed, startStore, leftover, prevEnd, runs>>

NoEvent == EmptyDict
NoFault == [exc |-> "none"]
Active == {"list_objects", "delete_objects", "list_versions", "delete_versions"}
Ended == {"returned", "raised", "killed"}

\* The contents a key can start with; seq values are unique per key.
Shape(k, sh) ==
    LET base == 2 * (k - 1)
    IN CASE sh = "none" -> {}
         [] sh = "plain" -> {Entry(k, base + 1, TRUE, FALSE, 0)}
         [] sh = "one" -> {Entry(k, base + 1, FALSE, FALSE, 0)}
         [] sh = "two" -> {Entry(k, base + 1, FALSE, FALSE, 0),
                           Entry(k, base + 2, FALSE, FALSE, 0)}
         [] sh = "marked" -> {Entry(k, base + 1, FALSE, FALSE, 0),
                              Entry(k, base + 2, FALSE, TRUE, 0)}
         [] OTHER -> {Entry(k, base + 1, FALSE, FALSE, 0),
                      Entry(k, base + 2, TRUE, FALSE, 0)}

Shapes(st) ==
    IF st = "Off" THEN {"none", "plain"}
    ELSE {"none", "one", "two", "marked", "nullnew"}

InitStores(st) ==
    {UNION {Shape(k, f[k]) : k \in Keys} : f \in [Keys -> Shapes(st)]}

Init ==
    /\ \E st \in {"Off", "Enabled", "Suspended"} :
          /\ status = [b \in Buckets |-> IF b = "b1" THEN st ELSE "Off"]
          /\ \E S \in InitStores(st) :
                store = [b \in Buckets |-> IF b = "b1" THEN S ELSE Shape(1, "plain")]
    /\ store0 = store
    /\ clock = 2 * MaxKeys + 1
    /\ pc = [i \in Slots |-> "idle"]
    /\ event = [i \in Slots |-> NoEvent]
    /\ verdict = [i \in Slots |-> NoVerdict]
    /\ fault = [i \in Slots |-> NoFault]
    /\ attempts = [i \in Slots |-> 0]
    /\ page = [i \in Slots |-> {}]
    /\ marker = [i \in Slots |-> NoMarker]
    /\ more = [i \in Slots |-> FALSE]
    /\ reqs = [i \in Slots |-> {}]
    /\ changed = [i \in Slots |-> FALSE]
    /\ startStore = [i \in Slots |-> {}]
    /\ leftover = [i \in Slots |-> {}]
    /\ prevEnd = [i \in Slots |-> "none"]
    /\ runs = [i \in Slots |-> 0]

\* bucket_name of line 72, for a slot that reached empty_bucket.
BucketOf(i) == Validate(event[i]).bucket_name.s

Request(op, b) == [op |-> op, bucket |-> b, config |-> EmptyBucketConfig]

\* ---------------------------------------------------------------- actions
\* lambda_handler up to the call of empty_bucket (lines 56-77).
Invoke(i, e) ==
    /\ pc[i] = "idle"
    /\ LET v == Validate(e)
       IN /\ pc' = [pc EXCEPT ![i] =
                      CASE v.kind = "return" -> "returned"
                        [] v.kind = "raise" -> "raised"
                        [] OTHER -> "list_objects"]
          /\ verdict' = [verdict EXCEPT ![i] =
                           IF v.kind = "return" THEN v.verdict ELSE NoVerdict]
          /\ fault' = [fault EXCEPT ![i] =
                         IF v.kind = "raise"
                         THEN [exc |-> v.exc, at |-> "extract"] ELSE NoFault]
          /\ startStore' = [startStore EXCEPT ![i] =
                              IF v.kind = "empty" /\ v.bucket_name.s \in Buckets
                              THEN store[v.bucket_name.s] ELSE {}]
    /\ event' = [event EXCEPT ![i] = e]
    /\ UNCHANGED <<status, store, store0, clock, attempts, page, marker, more, reqs,
                   changed, leftover, prevEnd, runs>>

\* A request of empty_bucket raised: what lambda_handler makes of it.
Raises(i, exc, o) ==
    LET r == OnEmptyBucketFault(event[i], exc)
    IN /\ pc' = [pc EXCEPT ![i] = IF r.kind = "raise" THEN "raised" ELSE "returned"]
       /\ verdict' = [verdict EXCEPT ![i] =
                        IF r.kind = "raise" THEN NoVerdict ELSE r.verdict]
       /\ fault' = [fault EXCEPT ![i] = [exc |-> exc, at |-> pc[i]]]
       /\ attempts' = [attempts EXCEPT ![i] = AttemptsMade(o, EmptyBucketConfig)]
       /\ UNCHANGED <<store, clock, page, marker, more, changed, leftover>>

\* lines 78-80: empty_bucket came back, SUCCESS is returned.
Returns(i, S) ==
    /\ pc' = [pc EXCEPT ![i] = "returned"]
    /\ verdict' = [verdict EXCEPT ![i] = SuccessVerdict(event[i])]
    /\ leftover' = [leftover EXCEPT ![i] = S]

\* line 48, bucket.objects.delete(): the paginator fetches a page of objects.
ListObjects(i, o) ==
    /\ pc[i] = "list_objects"
    /\ LET b == BucketOf(i)
           err == BackendError(b, o, EmptyBucketConfig)
       IN /\ reqs' = [reqs EXCEPT ![i] = @ \cup {Request("ListObjects", b)}]
          /\ IF err # "none"
             THEN Raises(i, err, o)
             ELSE LET pg == ObjectsPage(store[b], marker[i])
                  IN /\ page' = [page EXCEPT ![i] = pg.items]
                     /\ more' = [more EXCEPT ![i] = pg.truncated]
                     /\ marker' = [marker EXCEPT ![i] =
                                     IF pg.items = {} THEN NoMarker ELSE pg.next]
                     /\ pc' = [pc EXCEPT ![i] =
                                 IF pg.items = {} THEN "list_versions"
                                 ELSE "delete_objects"]
                     /\ UNCHANGED <<store, clock, verdict, fault, attempts,
                                    changed, leftover>>
    /\ UNCHANGED <<status, store0, event, startStore, prevEnd, runs>>

\* line 48: the batch action deletes the page's keys with one DeleteObjects.
DeleteObjects(i, o) ==
    /\ pc[i] = "delete_objects"
    /\ LET b == BucketOf(i)
           err == BackendError(b, o, EmptyBucketConfig)
       IN /\ reqs' = [reqs EXCEPT ![i] = @ \cup {Request("DeleteObjects", b)}]
          /\ IF err # "none"
             THEN Raises(i, err, o)
             ELSE IF DeleteRaises(store[b], page[i])
             THEN Raises(i, "NoSuchKey", o)
             ELSE LET S == DeleteKeys(store[b], status[b], page[i], clock, i)
                  IN /\ store' = [store EXCEPT ![b] = S]
                     /\ clock' = IF WritesMarkers(status[b])
                                 THEN clock + Cardinality(page[i]) ELSE clock
                     /\ changed' = [changed EXCEPT ![i] = @ \/ S # store[b]]
                     /\ page' = [page EXCEPT ![i] = {}]
                     /\ marker' = [marker EXCEPT ![i] =
                                     IF more[i] THEN @ ELSE NoMarker]
                     /\ pc' = [pc EXCEPT ![i] =
                                 IF more[i] THEN "list_objects" ELSE "list_versions"]
                     /\ UNCHANGED <<verdict, fault, attempts, more, leftover>>
    /\ UNCHANGED <<status, store0, event, startStore, prevEnd, runs>>

\* line 51, bucket.object_versions.delete(): a page of versions and markers.
ListVersions(i, o) ==
    /\ pc[i] = "list_versions"
    /\ LET b == BucketOf(i)
           err == BackendError(b, o, EmptyBucketConfig)
       IN /\ reqs' = [reqs EXCEPT ![i] = @ \cup {Request("ListObjectVersions", b)}]
          /\ IF err # "none"
             THEN Raises(i, err, o)
             ELSE LET pg == VersionsPage(store[b], marker[i])
                  IN /\ page' = [page EXCEPT ![i] = pg.items]
                     /\ more' = [more EXCEPT ![i] = pg.truncated]
                     /\ marker' = [marker EXCEPT ![i] = pg.next]
                     /\ IF pg.items = {}
                        THEN Returns(i, store[b])
                        ELSE /\ pc' = [pc EXCEPT ![i] = "delete_versions"]
                             /\ UNCHANGED <<verdict, leftover>>
                     /\ UNCHANGED <<store, clock, fault, attempts, changed>>
    /\ UNCHANGED <<status, store0, event, startStore, prevEnd, runs>>

\* line 51: the batch action deletes the page's versions; lines 53, 78-80 follow
\* the last page.
DeleteVersions(i, o) ==
    /\ pc[i] = "delete_versions"
    /\ LET b == BucketOf(i)
           err == BackendError(b, o, EmptyBucketConfig)
       IN /\ reqs' = [reqs EXCEPT ![i] = @ \cup {Request("DeleteObjectVersions", b)}]
          /\ IF err # "none"
             THEN Raises(i, err, o)
             ELSE IF DeleteRaises(store[b], page[i])
             THEN Raises(i, "NoSuchKey", o)
             ELSE LET S == DeleteVersionItems(store[b], page[i])
                  IN /\ store' = [store EXCEPT ![b] = S]
                     /\ changed' = [changed EXCEPT ![i] = @ \/ S # store[b]]
                     /\ page' = [page EXCEPT ![i] = {}]
                     /\ IF more[i]
                        THEN /\ pc' = [pc EXCEPT ![i] = "list_versions"]
                             /\ UNCHANGED <<verdict, leftover>>
                        ELSE Returns(i, S)
                     /\ UNCHANGED <<clock, fault, attempts, marker, more>>
    /\ UNCHANGED <<status, store0, event, startStore, prevEnd, runs>>

\* The execution environment stops a running invocation (its time ceiling).
Kill(i) ==
    /\ pc[i] \in Active
    /\ pc' = [pc EXCEPT ![i] = "killed"]
    /\ UNCHANGED <<status, store, store0, clock, event, verdict, fault, attempts, page,
                   marker, more, reqs, changed, startStore, leftover, prevEnd, runs>>

\* The invocation is over; nothing of it is kept for the slot's next one.
Reset(i) ==
    /\ pc[i] \in Ended
    /\ runs[i] + 1 < MaxRuns
    /\ runs' = [runs EXCEPT ![i] = @ + 1]
    /\ prevEnd' = [prevEnd EXCEPT ![i] = pc[i]]
    /\ pc' = [pc EXCEPT ![i] = "idle"]
    /\ event' = [event EXCEPT ![i] = NoEvent]
    /\ verdict' = [verdict EXCEPT ![i] = NoVerdict]
    /\ fault' = [fault EXCEPT ![i] = NoFault]
    /\ attempts' = [attempts EXCEPT ![i] = 0]
    /\ page' = [page EXCEPT ![i] = {}]
    /\ marker' = [marker EXCEPT ![i] = NoMarker]
    /\ more' = [more EXCEPT ![i] = FALSE]
    /\ reqs' = [reqs EXCEPT ![i] = {}]
    /\ changed' = [changed EXCEPT ![i] = FALSE]
    /\ startStore' = [startStore EXCEPT ![i] = {}]
    /\ leftover' = [leftover EXCEPT ![i] = {}]
    /\ UNCHANGED <<status, store, store0, clock>>

\* ---------------------------------------------------------- specifications
\* One invocation, any event, any backend outcome.
Next ==
    \/ \E e \in Events : Invoke(1, e)
    \/ \E o \in Outcomes : ListObjects(1, o)
    \/ \E o \in Outcomes : DeleteObjects(1, o)
    \/ \E o \in Outcomes : ListVersions(1, o)
    \/ \E o \in Outcomes : DeleteVersions(1, o)

Spec == Init /\ [][Next]_vars

\* Invocations one after the other on a bucket, each possibly stopped midway;
\* the backend answers every request.
SeqNext ==
    \/ \E b \in Buckets : Invoke(1, WellFormedEvent(b, "tok"))
    \/ ListObjects(1, OkOutcome)
    \/ DeleteObjects(1, OkOutcome)
    \/ ListVersions(1, OkOutcome)
    \/ DeleteVersions(1, OkOutcome)
    \/ Kill(1)
    \/ Reset(1)

SeqSpec == Init /\ [][SeqNext]_vars

\* Invocations running concurrently on the same bucket.
ConcNext ==
    \E i \in Slots :
        \/ Invoke(i, WellFormedEvent("b1", "tok"))
        \/ ListObjects(i, OkOutcome)
        \/ DeleteObjects(i, OkOutcome)
        \/ ListVersions(i, OkOutcome)
        \/ DeleteVersions(i, OkOutcome)

ConcSpec == Init /\ [][ConcNext]_vars

\* ------------------------------------------------------------ vocabulary
ProvenanceFields == {"hookTypeName", "actionInvocationPoint", "clientRequestToken"}

\* A field that is absent or empty.
Missing(e, f) == f \notin DOMAIN e \/ e[f] = Str("") \/ e[f] = Null

NonEmpty(e, f) == f \in DOMAIN e /\ e[f].t = "str" /\ e[f].s # ""

IsDeletePhase(e) ==
    /\ "actionInvocationPoint" \in DOMAIN e
    /\ e["actionInvocationPoint"] = Str(DELETE_PRE_PROVISION)

\* The first key of the path that is absent from the mapping that should hold
\* it; "" when no key is absent or a value on the way is no mapping.
RECURSIVE AbsentKey(_, _)
AbsentKey(v, path) ==
    IF path = <<>> \/ v.t # "map" THEN ""
    ELSE IF Head(path) \notin DOMAIN v.m THEN Head(path)
    ELSE AbsentKey(v.m[Head(path)], Tail(path))

\* The value at the end of the path, Absent when the path cannot be followed.
RECURSIVE ValueAt(_, _)
ValueAt(v, path) ==
    IF path = <<>> THEN v
    ELSE IF v.t # "map" \/ Head(path) \notin DOMAIN v.m THEN Absent
    ELSE ValueAt(v.m[Head(path)], Tail(path))

NamedBucket(e) == ValueAt(Map(e), BucketNamePath)

WellFormed(e) ==
    /\ NonEmpty(e, "hookTypeName")
    /\ NonEmpty(e, "clientRequestToken")
    /\ IsDeletePhase(e)
    /\ NamedBucket(e) # Absent

DeleteOps == {"DeleteObjects", "DeleteObjectVersions"}
VersionOps == {"ListObjectVersions", "DeleteObjectVersions"}
SentDelete(i) == \E r \in reqs[i] : r.op \in DeleteOps

IsFailure(v, code) ==
    /\ v.hookStatus = "FAILURE"
    /\ "errorCode" \in DOMAIN v
    /\ v.errorCode = code

EchoesToken(v, e) ==
    /\ "clientRequestToken" \in DOMAIN v
    /\ "clientRequestToken" \in DOMAIN e
    /\ v.clientRequestToken = e["clientRequestToken"]

\* Entries that are not the latest of their key.
Historical(S) == {e \in S : e # Latest(S, e.key)}

\* -------------------------------------------------------------- claims
\* C1: a well-formed event naming an existing bucket, nobody else touching the
\* bucket: when lambda_handler returns, the bucket holds no object, no version
\* and no delete marker (those the object phase wrote included), and the verdict
\* is exactly SUCCESS / "compliant" / the request's token, without errorCode.
C1_EmptiesAndSucceeds ==
    \A i \in Slots :
        (/\ pc[i] = "returned"
         /\ WellFormed(event[i])
         /\ NamedBucket(event[i]).s \in Buckets)
        => /\ verdict[i] = [hookStatus |-> "SUCCESS", message |-> "compliant",
                            clientRequestToken |-> event[i]["clientRequestToken"]]
           /\ "errorCode" \notin DOMAIN verdict[i]
           /\ store[NamedBucket(event[i]).s] = {}

\* A versioned bucket that held current objects for every key and a historical
\* version was emptied through both phases, markers having been written.
C1_Witness ==
    /\ pc[1] = "returned"
    /\ verdict[1].hookStatus = "SUCCESS"
    /\ WellFormed(event[1])
    /\ NamedBucket(event[1]) = Str("b1")
    /\ status["b1"] = "Enabled"
    /\ CurrentKeys(startStore[1]) = Keys
    /\ Historical(startStore[1]) # {}
    /\ clock > 2 * MaxKeys + 1
    /\ store["b1"] = {}

\* C2: a delete request is sent only for an event with non-empty hookTypeName
\* and clientRequestToken, the DELETE_PRE_PROVISION phase and a BucketName; a
\* FAILURE verdict means nothing was removed; only the named bucket is touched.
C2_ValidationGatesDeletes ==
    \A i \in Slots :
        /\ SentDelete(i) => WellFormed(event[i])
        /\ verdict[i].hookStatus = "FAILURE" =>
              /\ ~SentDelete(i)
              /\ ~changed[i]
              /\ store = store0
        /\ \A r \in reqs[i] : Str(r.bucket) = NamedBucket(event[i])
        /\ \A b \in Buckets :
              store[b] # store0[b] =>
                 \E j \in Slots : SentDelete(j) /\ NamedBucket(event[j]) = Str(b)

\* Deletes were sent and changed the named bucket, the other one is as it was.
C2_Witness ==
    /\ SentDelete(1)
    /\ changed[1]
    /\ NamedBucket(event[1]) = Str("b1")
    /\ store["b1"] # store0["b1"]
    /\ store["b2"] = store0["b2"]

\* C3: an event in which hookTypeName, actionInvocationPoint or
\* clientRequestToken is absent or empty gets FAILURE / Unauthorized in a
\* response that has no clientRequestToken field.
C3_MissingProvenance ==
    \A i \in Slots :
        (pc[i] # "idle" /\ \E f \in ProvenanceFields : Missing(event[i], f))
        => /\ pc[i] = "returned"
           /\ IsFailure(verdict[i], "Unauthorized")
           /\ "clientRequestToken" \notin DOMAIN verdict[i]

\* The request carried a token and another field was the missing one.
C3_Witness ==
    /\ pc[1] = "returned"
    /\ NonEmpty(event[1], "clientRequestToken")
    /\ NonEmpty(event[1], "hookTypeName")
    /\ "actionInvocationPoint" \notin DOMAIN event[1]
    /\ IsFailure(verdict[1], "Unauthorized")
    /\ "clientRequestToken" \notin DOMAIN verdict[1]

\* What C4 promises of a rejected phase: FAILURE / Unauthorized, the token
\* echoed, the received value in the message.
PhaseRejection(i) ==
    /\ pc[i] = "returned"
    /\ IsFailure(verdict[i], "Unauthorized")
    /\ EchoesToken(verdict[i], event[i])
    /\ "received" \in DOMAIN verdict[i].message
    /\ verdict[i].message.received = DictGet(event[i], "actionInvocationPoint")

\* C4 as stated: every event whose actionInvocationPoint is not exactly
\* DELETE_PRE_PROVISION (another phase, the empty string, absent) gets FAILURE /
\* Unauthorized with the token echoed and the received value in the message.
C4_AsStated ==
    \A i \in Slots :
        (pc[i] # "idle" /\ ~IsDeletePhase(event[i])) => PhaseRejection(i)

\* C4 amended: with hookTypeName and clientRequestToken non-empty, a non-empty
\* actionInvocationPoint other than DELETE_PRE_PROVISION gets FAILURE /
\* Unauthorized with the token echoed and the received value in the message; an
\* empty or absent actionInvocationPoint gets the provenance rejection, which
\* has no token and names no received value.
C4_WrongPhase ==
    \A i \in Slots :
        (/\ pc[i] # "idle"
         /\ ~IsDeletePhase(event[i])
         /\ NonEmpty(event[i], "hookTypeName")
         /\ NonEmpty(event[i], "clientRequestToken"))
        => IF NonEmpty(event[i], "actionInvocationPoint")
           THEN PhaseRejection(i)
           ELSE /\ pc[i] = "returned"
                /\ IsFailure(verdict[i], "Unauthorized")
                /\ "clientRequestToken" \notin DOMAIN verdict[i]
                /\ "received" \notin DOMAIN verdict[i].message

\* CREATE_PRE_PROVISION was rejected with the token and the value named.
C4_Witness ==
    /\ DictGet(event[1], "actionInvocationPoint") = Str("CREATE_PRE_PROVISION")
    /\ PhaseRejection(1)
    /\ verdict[1].clientRequestToken = Str("tok")

\* C5: an event that passes the provenance and the phase check, with BucketName
\* or an ancestor key of its path absent, gets FAILURE / NonCompliant, a message
\* naming the missing key, the token echoed, and no delete is sent.
C5_MissingBucketName ==
    \A i \in Slots :
        (/\ pc[i] # "idle"
         /\ \A f \in ProvenanceFields : NonEmpty(event[i], f)
         /\ IsDeletePhase(event[i])
         /\ AbsentKey(Map(event[i]), BucketNamePath) # "")
        => /\ pc[i] = "returned"
           /\ IsFailure(verdict[i], "NonCompliant")
           /\ verdict[i].message.key = AbsentKey(Map(event[i]), BucketNamePath)
           /\ EchoesToken(verdict[i], event[i])
           /\ reqs[i] = {}
           /\ store = store0

\* An ancestor key (resourceProperties) was the absent one.
C5_Witness ==
    /\ pc[1] = "returned"
    /\ AbsentKey(Map(event[1]), BucketNamePath) = "resourceProperties"
    /\ IsFailure(verdict[1], "NonCompliant")
    /\ verdict[1].message.key = "resourceProperties"
    /\ verdict[1].clientRequestToken = Str("tok")

\* No invocation raised.
NoneRaised == \A i \in Slots : pc[i] # "raised"

\* Every invocation that returned SUCCESS did so with its bucket empty.
EmptyAtEverySuccess ==
    \A i \in Slots :
        (pc[i] = "returned" /\ verdict[i].hookStatus = "SUCCESS") => leftover[i] = {}

\* Once all invocations have ended the bucket is empty.
EmptyOnceAllReturned ==
    (\A i \in Slots : pc[i] = "returned") => store["b1"] = {}

\* C6: under every interleaving of concurrent invocations on one bucket, no
\* invocation fails because of another's deletions, and each one that returns
\* SUCCESS does so at a moment when the bucket holds no object, no version and
\* no delete marker.
C6_ConcurrentSafe == NoneRaised /\ EmptyAtEverySuccess /\ EmptyOnceAllReturned

\* C7: after an earlier invocation of empty_bucket, completed or stopped after
\* any prefix of its requests, a complete invocation raises nothing and ends
\* with the bucket empty; on an empty bucket it changes nothing.
C7_ReinvocationConverges ==
    \A i \in Slots :
        /\ pc[i] # "raised"
        /\ pc[i] = "returned" =>
              /\ verdict[i].hookStatus = "SUCCESS"
              /\ store[NamedBucket(event[i]).s] = {}
        /\ (pc[i] # "idle" /\ startStore[i] = {}) =>
              /\ ~changed[i]
              /\ store[NamedBucket(event[i]).s] = {}

\* The earlier invocation was stopped with the bucket partly emptied, and the
\* next one finished the work.
C7_Witness ==
    /\ prevEnd[1] = "killed"
    /\ pc[1] = "returned"
    /\ NamedBucket(event[1]) = Str("b1")
    /\ startStore[1] # {}
    /\ startStore[1] # store0["b1"]
    /\ store["b1"] = {}

\* C8: lambda_handler raises only when the deletion operation raised; an event
\* rejected before the deletion step gets a returned FAILURE verdict with
\* errorCode Unauthorized or NonCompliant.
C8_NoRawValidationFault ==
    \A i \in Slots :
        /\ pc[i] = "raised" => fault[i].at \in Active
        /\ (pc[i] \in Ended /\ reqs[i] = {}) =>
              /\ pc[i] = "returned"
              /\ verdict[i].hookStatus = "FAILURE"
              /\ verdict[i].errorCode \in {"Unauthorized", "NonCompliant"}

\* C9: a failure raised by a request of empty_bucket, in either phase, is not
\* turned into a verdict: lambda_handler returns none and the fault leaves it;
\* raised in the object phase, the version phase is never started.
C9_DeletionFaultPropagates ==
    \A i \in Slots :
        (fault[i] # NoFault /\ fault[i].at \in Active)
        => /\ pc[i] = "raised"
           /\ verdict[i] = NoVerdict
           /\ fault[i].at \in {"list_objects", "delete_objects"} =>
                 \A r \in reqs[i] : r.op \notin VersionOps

\* A request of the object phase raised after a page had been deleted: the
\* bucket is partly emptied and no version request was sent.
C9_Witness ==
    /\ pc[1] = "raised"
    /\ fault[1].at = "list_objects"
    /\ NamedBucket(event[1]) = Str("b1")
    /\ changed[1]
    /\ store["b1"] # {}
    /\ store["b1"] # store0["b1"]

\* C10: every list and delete request of empty_bucket goes through a client
\* that carries the configured retry policy (max_attempts 10, standard mode): a
\* transient failure is retried up to that bound before a fault leaves
\* empty_bucket.
C10_ConfiguredRetries ==
    \A i \in Slots :
        /\ \A r \in reqs[i] : r.config = CLIENT_CONFIG
        /\ (pc[i] \in Ended /\ fault[i] # NoFault /\ fault[i].exc = "Transient") =>
              attempts[i] = CLIENT_CONFIG.max_attempts + 1
====
